---- MODULE Spec2Model ----
(***************************************************************************)
(* Model of the DOM hierarchy lint rules of eslint-plugin-react:           *)
(*   lib/rules/valid-dom-hierarchy.js   (content-model table, predicate    *)
(*                                       isValidHTMLChild, findParentName, *)
(*                                       the JSXElement / CallExpression   *)
(*                                       handlers)                         *)
(*   lib/rules/valid-table-hierarchy.js (the older table construction)     *)
(*                                                                         *)
(* Three specifications share the module:                                  *)
(*   SpecBuild  module load: the table is built one registration at a time *)
(*   SpecPairs  isValidHTMLChild applied to a (parent tag, child tag) pair *)
(*   Spec       a lint run: the traversal enters the nodes of a syntax     *)
(*              tree and runs the handler of each node                     *)
(***************************************************************************)
EXTENDS Integers, Sequences, FiniteSets, TLC

VARIABLES
  file,        \* SpecBuild: which rule module is being loaded
  dict,        \* SpecBuild: HTML_ELEMENT_CONTEXT as built so far
  step,        \* SpecBuild: index of the next construction step
  aborted,     \* SpecBuild: module load threw
  parentName,  \* SpecPairs: first argument of isValidHTMLChild
  childName,   \* SpecPairs: second argument of isValidHTMLChild
  verdict,     \* SpecPairs: the value returned (or the exception thrown)
  tableVerdict, \* SpecPairs: the value returned by valid-table-hierarchy.js
  nodes,       \* Spec: the syntax tree entered so far, node id = index
  reports,     \* Spec: the diagnostics passed to context.report, in order
  crashed,     \* Spec: a handler threw and the lint run stopped
  walkPc,      \* SpecWalk: "idle", "loop" (in findParentName's loop), "done"
  walkNode,    \* SpecWalk: the local variable `node` of findParentName
  walkVisited, \* SpecWalk: the nodes the loop body has run on, in order
  walkResult   \* SpecWalk: the value findParentName returned

vars == <<file, dict, step, aborted, parentName, childName, verdict,
          tableVerdict, nodes, reports, crashed,
          walkPc, walkNode, walkVisited, walkResult>>

buildVars == <<file, dict, step, aborted>>
pairVars  == <<parentName, childName, verdict, tableVerdict>>
treeVars  == <<nodes, reports, crashed>>
walkVars  == <<walkPc, walkNode, walkVisited, walkResult>>

----------------------------------------------------------------------------
(* JavaScript values.  Tag names and context categories are strings; the   *)
(* value undefined is a marker no tag name equals.  A `parent` or          *)
(* `exclude` property is an array or a string, kept apart by a type tag,   *)
(* because Array.prototype.indexOf and String.prototype.indexOf differ.    *)

Undefined == "$undefined"
TypeError == "TypeError"

\* findParentName is not running
WalkIdle ==
  /\ walkPc = "idle" /\ walkNode = 0
  /\ walkVisited = <<>> /\ walkResult = Undefined

Arr(items) == [t |-> "array", v |-> items]
Str(s)     == [t |-> "string", v |-> s]
NoValue    == [t |-> "undefined", v |-> <<>>]

\* {context: ctx, parent: par}
Rule(ctx, par) ==
  [context |-> ctx, contet |-> Undefined, parent |-> par, exclude |-> NoValue,
   interactive |-> FALSE, noInteractive |-> FALSE, transparent |-> FALSE]

\* {context: ctx, parent: par, exclude: ex}
RuleEx(ctx, par, ex) == [Rule(ctx, par) EXCEPT !.exclude = ex]

\* {contet: c, parent: par}: the entries whose key is spelled `contet`
\* have no `context` property at all
Typo(c, par) == [Rule(Undefined, par) EXCEPT !.contet = c]

----------------------------------------------------------------------------
(* valid-dom-hierarchy.js: the object literal, in source order.            *)

DomLiteral ==
  <<
     <<"html", Rule("html", Arr(<<>>))>>,
     <<"head", Rule("head", Arr(<<"html">>))>>,
     <<"title", Rule("text", Arr(<<"head">>))>>,
     <<"style", Rule("text", Arr(<<"head">>))>>,
     <<"script", Rule("text", Arr(<<"flow", "phrasing", "head">>))>>,
     <<"link", Rule("void", Arr(<<"head">>))>>,
     <<"meta", Rule("void", Arr(<<"head">>))>>,
     <<"base", Rule("void", Arr(<<"head">>))>>,
     <<"body", Rule("flow", Arr(<<"html">>))>>,
     <<"table", Rule("table", Arr(<<"flow">>))>>,
     <<"caption", Rule("text", Arr(<<"table">>))>>,
     <<"colgroup", Rule("colgroup", Arr(<<"table">>))>>,
     <<"command", Rule("void", Arr(<<"colgroup">>))>>,
     <<"col", Rule("void", Arr(<<"colgroup">>))>>,
     <<"thead", Rule("table-section", Arr(<<"table">>))>>,
     <<"tbody", Rule("table-section", Arr(<<"table">>))>>,
     <<"tfoot", Rule("table-section", Arr(<<"table">>))>>,
     <<"tr", Rule("tr", Arr(<<"table", "table-section">>))>>,
     <<"th", Rule("flow", Arr(<<"tr">>))>>,
     <<"td", Rule("flow", Arr(<<"tr">>))>>,
     <<"picture", Rule("picture", Arr(<<"phrasing", "flow">>))>>,
     <<"video", Rule("video", Arr(<<"phrasing", "flow">>))>>,
     <<"audio", Rule("audio", Arr(<<"phrasing", "flow">>))>>,
     <<"track", Rule("void", Arr(<<"audio", "video">>))>>,
     <<"source", Rule("void", Arr(<<"audio", "video", "picture">>))>>,
     <<"img", Rule("void", Arr(<<"phrasing", "flow", "picture">>))>>,
     <<"iframe", Rule("void", Arr(<<"phrasing", "flow">>))>>,
     <<"embed", Typo("void", Arr(<<"phrasing", "flow">>))>>,
     <<"applet", Typo("object", Arr(<<"phrasing", "flow">>))>>,
     <<"object", Typo("object", Arr(<<"phrasing", "flow">>))>>,
     <<"param", Rule("void", Arr(<<"object">>))>>,
     <<"select", Rule("select", Arr(<<"phrasing", "flow">>))>>,
     <<"optgroup", Rule("optgroup", Arr(<<"select">>))>>,
     <<"option", Rule("text", Arr(<<"optgroup", "select", "datalist">>))>>,
     <<"datalist", Rule("phrasing", Str("phrasing"))>>,
     <<"menu", Rule("menu", Arr(<<"flow">>))>>,
     <<"menuitem", Rule("void", Arr(<<"menu">>))>>,
     <<"dir", Rule("list", Arr(<<"flow">>))>>,
     <<"ol", Rule("list", Arr(<<"flow">>))>>,
     <<"ul", Rule("list", Arr(<<"flow">>))>>,
     <<"li", Rule("flow", Arr(<<"menu", "list">>))>>,
     <<"dl", Rule("dl", Arr(<<"flow">>))>>,
     <<"dt", Rule("flow", Arr(<<"dl", "div">>))>>,
     <<"dd", Rule("flow", Arr(<<"dl", "div">>))>>,
     <<"div", Rule("flow", Arr(<<"flow", "dl">>))>>,
     <<"main", Rule("flow", Arr(<<"flow">>))>>,
     <<"p", Rule("phrasing", Arr(<<"flow">>))>>,
     <<"pre", Rule("phrasing", Arr(<<"flow">>))>>,
     <<"a", Rule("phrasing", Arr(<<"flow", "phrasing">>))>>,
     <<"hgroup", Rule("hgroup", Arr(<<"flow">>))>>,
     <<"textarea", Rule("text", Arr(<<"phrasing", "flow">>))>>,
     <<"hr", Rule("void", Arr(<<"flow">>))>>,
     <<"summary", Rule("phrasing", Arr(<<"details">>))>>,
     <<"footer", RuleEx("flow", Arr(<<"flow">>), Arr(<<"footer", "header", "address">>))>>,
     <<"header", RuleEx("flow", Arr(<<"flow">>), Arr(<<"footer", "header", "address">>))>>,
     <<"section", RuleEx("flow", Arr(<<"flow">>), Arr(<<"address">>))>>,
     <<"article", RuleEx("flow", Arr(<<"flow">>), Arr(<<"address">>))>>,
     <<"aside", RuleEx("flow", Arr(<<"flow">>), Arr(<<"address">>))>>,
     <<"figure", Rule("flow", Arr(<<"flow">>))>>,
     <<"figcaption", Rule("flow", Arr(<<"figcaption">>))>>,
     <<"fieldset", Rule("flow", Arr(<<"flow">>))>>,
     <<"legend", Rule("phrasing", Arr(<<"fieldset">>))>>,
     <<"ruby", Rule("phrasing", Arr(<<"phrasing">>))>>,
     <<"rbc", Rule("phrasing", Arr(<<"ruby">>))>>,
     <<"rtc", Rule("phrasing", Arr(<<"ruby">>))>>,
     <<"rb", Rule("phrasing", Arr(<<"ruby", "rbc", "rtc">>))>>,
     <<"rp", Rule("phrasing", Arr(<<"ruby", "rbc", "rtc">>))>>,
     <<"rt", Rule("phrasing", Arr(<<"ruby", "rbc", "rtc">>))>>
  >>

\* the four setContext calls: << context, elements >>
DomSetContextCalls ==
  <<
     <<Rule("flow", Arr(<<"flow">>)),
       <<"details", "dialog", "form", "address", "shadow", "blockquote",
         "nav">> >>,
     <<Rule("phrasing", Arr(<<"phrasing", "flow">>)),
       <<"abbr", "b", "bdi", "button", "canvas", "cite", "code", "data",
         "dfn", "em", "i", "kbd", "label", "mark", "math", "meter", "output",
         "progress", "q", "s", "samp", "small", "slot", "sub", "sup", "time",
         "tt", "u", "var", "del", "ins", "span", "strong">> >>,
     <<Rule("phrasing", Arr(<<"flow", "hgroup", "legend">>)),
       <<"h1", "h2", "h3", "h4", "h5", "h6">> >>,
     <<Rule("void", Arr(<<"phrasing", "flow">>)),
       <<"area", "wbr", "br", "input", "keygen">> >>
  >>

\* elements that can't be own parents
DomSelfExclude ==
  <<"a", "dfn", "label", "meter", "progress", "canvas", "main", "form",
    "address">>

\* interactive elements
DomInteractive ==
  <<"a", "button", "details", "embed", "iframe", "keygen", "label", "select",
    "textarea", "input", "menu">>

\* elements with no interactive children
DomNoInteractive == <<"a", "button">>

\* transparent elements
DomTransparent ==
  <<"audio", "video", "applet", "object", "slot", "a", "canvas", "del",
    "ins">>

----------------------------------------------------------------------------
(* valid-table-hierarchy.js: the object literal and the three forEach      *)
(* loops that assign a shared rule object to each listed tag.              *)

TableLiteral ==
  <<
     <<"html", Rule("html", Arr(<<>>))>>,
     <<"head", Rule("head", Str("html"))>>,
     <<"title", Rule("text", Str("head"))>>,
     <<"style", Rule("text", Str("head"))>>,
     <<"script", Rule("text", Arr(<<"flow", "phrasing", "head">>))>>,
     <<"link", Rule("void", Str("head"))>>,
     <<"meta", Rule("void", Str("head"))>>,
     <<"base", Rule("void", Str("head"))>>,
     <<"body", Rule("flow", Str("html"))>>,
     <<"table", Rule("table", Str("flow"))>>,
     <<"caption", Rule("text", Str("table"))>>,
     <<"colgroup", Rule("table-colgroup", Str("table"))>>,
     <<"col", Rule("void", Str("table-colgroup"))>>,
     <<"thead", Rule("table-section", Str("table"))>>,
     <<"tbody", Rule("table-section", Str("table"))>>,
     <<"tfoot", Rule("table-section", Str("table"))>>,
     <<"tr", Rule("tr", Arr(<<"table", "table-section">>))>>,
     <<"th", Rule("flow", Str("tr"))>>,
     <<"td", Rule("flow", Str("tr"))>>,
     <<"p", Rule("phrasing", Str("flow"))>>,
     <<"div", Rule("flow", Str("flow"))>>,
     <<"select", Rule("select", Str("flow"))>>,
     <<"optgroup", Rule("optgroup", Str("select"))>>,
     <<"option", Rule("text", Arr(<<"optgroup", "select">>))>>,
     <<"textarea", Rule("text", Arr(<<"phrasing", "flow">>))>>,
     <<"hr", Rule("void", Str("flow"))>>,
     <<"picture", Rule("picture", Arr(<<"phrasing", "flow">>))>>,
     <<"video", Rule("video", Arr(<<"phrasing", "flow">>))>>,
     <<"audio", Rule("audio", Arr(<<"phrasing", "flow">>))>>,
     <<"track", Rule("void", Arr(<<"audio", "video">>))>>,
     <<"source", Rule("void", Arr(<<"audio", "video", "picture">>))>>,
     <<"img", Rule("void", Arr(<<"phrasing", "flow", "picture">>))>>
  >>

HEADING_CONTEXT == Rule("phrasing", Str("flow"))
VOID_PHRASING   == Rule("void", Arr(<<"phrasing", "flow">>))
PHRASING        == Rule("phrasing", Arr(<<"phrasing", "flow">>))

\* the three forEach loops: << rule, elements >>
TableAssignLoops ==
  <<
     <<HEADING_CONTEXT, <<"h1", "h2", "h3", "h4", "h5", "h6">> >>,
     <<VOID_PHRASING,
       <<"area", "br", "embed", "input", "keygen", "menuitem", "param",
         "wbr">> >>,
     <<PHRASING,
       <<"abbr", "b", "bdo", "button", "canvas", "cite", "code", "data",
         "dfn", "em", "embed", "i", "input", "kbd", "label", "mark", "math",
         "meter", "output", "progress", "q", "ruby", "samp", "small", "span",
         "strong", "sub", "sup", "time", "var">> >>
  >>

----------------------------------------------------------------------------
(* Module load as a program: one step per property definition of the       *)
(* object literal and one per iteration of each forEach callback.          *)

LiteralSteps(lit) ==
  [i \in 1..Len(lit) |-> [op |-> "define", key |-> lit[i][1], arg |-> lit[i][2]]]

LoopSteps(op, arg, elements) ==
  [i \in 1..Len(elements) |-> [op |-> op, key |-> elements[i], arg |-> arg]]

RECURSIVE CallSteps(_, _, _)
CallSteps(op, calls, i) ==
  IF i > Len(calls) THEN <<>>
  ELSE LoopSteps(op, calls[i][1], calls[i][2]) \o CallSteps(op, calls, i + 1)

DomProgram ==
  LiteralSteps(DomLiteral)
    \o CallSteps("setContext", DomSetContextCalls, 1)
    \o LoopSteps("exclude", NoValue, DomSelfExclude)
    \o LoopSteps("interactive", NoValue, DomInteractive)
    \o LoopSteps("noInteractive", NoValue, DomNoInteractive)
    \o LoopSteps("transparent", NoValue, DomTransparent)

TableProgram ==
  LiteralSteps(TableLiteral) \o CallSteps("assign", TableAssignLoops, 1)

Program(f) == IF f = "valid-dom-hierarchy" THEN DomProgram ELSE TableProgram

EmptyDict == [x \in {} |-> NoValue]

\* has(dict, key): Object.prototype.hasOwnProperty
has(d, key) == key \in DOMAIN d

\* dict[key] = value
Put(d, key, value) ==
  [x \in DOMAIN d \cup {key} |-> IF x = key THEN value ELSE d[x]]

\* the body of setContext's forEach callback for one element
setContext(d, context, element) ==
  IF element \in DOMAIN d
  THEN [dict |-> d, threw |-> TRUE]
  ELSE [dict |-> Put(d, element, context), threw |-> FALSE]

\* HTML_ELEMENT_CONTEXT[element].<flag> = ...; throws when the element has
\* no entry
Patch(d, op, element) ==
  IF ~has(d, element) THEN [dict |-> d, threw |-> TRUE]
  ELSE [dict |->
          [d EXCEPT ![element] =
             CASE op = "exclude"       -> [@ EXCEPT !.exclude = Arr(<<element>>)]
               [] op = "interactive"   -> [@ EXCEPT !.interactive = TRUE]
               [] op = "noInteractive" -> [@ EXCEPT !.noInteractive = TRUE]
               [] op = "transparent"   -> [@ EXCEPT !.transparent = TRUE]],
        threw |-> FALSE]

PatchOps == {"exclude", "interactive", "noInteractive", "transparent"}

ApplyStep(d, s) ==
  CASE s.op = "define"     -> [dict |-> Put(d, s.key, s.arg), threw |-> FALSE]
    [] s.op = "assign"     -> [dict |-> Put(d, s.key, s.arg), threw |-> FALSE]
    [] s.op = "setContext" -> setContext(d, s.arg, s.key)
    [] s.op \in PatchOps   -> Patch(d, s.op, s.key)

RegisterOps == {"define", "assign", "setContext"}

StepsFor(prog, key, ops) ==
  {i \in 1..Len(prog) : prog[i].key = key /\ prog[i].op \in ops}

Last(S) == CHOOSE m \in S : \A x \in S : x <= m

\* the table a program leaves behind when no step throws: each key holds
\* the rule of its last registration, with the flags of the later loops
Loaded(prog) ==
  [key \in {prog[i].key : i \in {j \in 1..Len(prog) : prog[j].op \in RegisterOps}} |->
     LET base == prog[Last(StepsFor(prog, key, RegisterOps))].arg
     IN [base EXCEPT
           !.exclude = IF StepsFor(prog, key, {"exclude"}) # {}
                       THEN Arr(<<key>>) ELSE @,
           !.interactive = StepsFor(prog, key, {"interactive"}) # {},
           !.noInteractive = StepsFor(prog, key, {"noInteractive"}) # {},
           !.transparent = StepsFor(prog, key, {"transparent"}) # {}]]

\* the table the rule uses once valid-dom-hierarchy.js is loaded
HTML_ELEMENT_CONTEXT == Loaded(DomProgram)

KnownTags == DOMAIN HTML_ELEMENT_CONTEXT

----------------------------------------------------------------------------
(* SpecBuild: loading one of the two rule modules.                         *)

Files == {"valid-dom-hierarchy", "valid-table-hierarchy"}

Loading == ~aborted /\ step <= Len(Program(file))

CurrentStep == Program(file)[step]

InitBuild ==
  /\ file \in Files
  /\ dict = EmptyDict
  /\ step = 1
  /\ aborted = FALSE
  /\ parentName = Undefined /\ childName = Undefined /\ verdict = "idle"
  /\ tableVerdict = "idle"
  /\ nodes = <<>> /\ reports = <<>> /\ crashed = FALSE
  /\ WalkIdle

TakeStep(ops) ==
  /\ Loading
  /\ CurrentStep.op \in ops
  /\ LET r == ApplyStep(dict, CurrentStep)
     IN /\ dict' = r.dict
        /\ aborted' = r.threw
        /\ step' = IF r.threw THEN step ELSE step + 1
  /\ UNCHANGED <<file, pairVars, treeVars, walkVars>>

\* a property definition of the object literal
DefineProperty == TakeStep({"define"})

\* one iteration of setContext's forEach
SetContextElement == TakeStep({"setContext"})

\* one iteration of a forEach that assigns HTML_ELEMENT_CONTEXT[element]
AssignElement == TakeStep({"assign"})

\* one iteration of a forEach that sets exclude / interactive /
\* noInteractive / transparent on an existing entry
PatchElement == TakeStep(PatchOps)

NextBuild ==
  \/ DefineProperty
  \/ SetContextElement
  \/ AssignElement
  \/ PatchElement

SpecBuild == InitBuild /\ [][NextBuild]_vars

----------------------------------------------------------------------------
(* isValidHTMLChild (valid-dom-hierarchy.js).  The result is one of the    *)
(* JavaScript values true, false, 'maybe', written "true", "false",        *)
(* "maybe", or the call throws a TypeError.                                *)

\* every contiguous piece of the one string that is used as a `parent`
PhrasingSubstrings ==
  {"", "p", "h", "r", "a", "s", "i", "n", "g",
   "ph", "hr", "ra", "as", "si", "in", "ng",
   "phr", "hra", "ras", "asi", "sin", "ing",
   "phra", "hras", "rasi", "asin", "sing",
   "phras", "hrasi", "rasin", "asing",
   "phrasi", "hrasin", "rasing",
   "phrasin", "hrasing",
   "phrasing"}

Substrings(s) == IF s = "phrasing" THEN PhrasingSubstrings ELSE {"", s}

\* x.indexOf(item) > -1: strict-equality search of an array, substring
\* search of a string
IndexOfFound(x, item) ==
  IF x.t = "array"
  THEN \E i \in 1..Len(x.v) : x.v[i] = item
  ELSE item \in Substrings(x.v)

\* parentContext.context: a property read on a string primitive yields
\* undefined; on undefined it throws
ContextOf(parentContext) ==
  IF parentContext = Undefined THEN TypeError ELSE Undefined

\* variant: the allowance is tested with the child's own context
isValidHTMLChild_ChildContext(pName, cName) ==
  IF ~has(HTML_ELEMENT_CONTEXT, pName) THEN "maybe"
  ELSE
    LET parentConfig == HTML_ELEMENT_CONTEXT[pName]
        parentContext == parentConfig.context
    IN
    IF ContextOf(parentContext) = TypeError THEN TypeError
    ELSE IF ContextOf(parentContext) = "void" THEN "false"
    ELSE IF ~has(HTML_ELEMENT_CONTEXT, cName) THEN "maybe"
    ELSE
      LET childConfig == HTML_ELEMENT_CONTEXT[cName]
          allowedParent == childConfig.parent
      IN
      IF parentConfig.noInteractive /\ childConfig.interactive THEN "false"
      ELSE IF childConfig.exclude.t = "array"
              /\ IndexOfFound(childConfig.exclude, pName) THEN "false"
      ELSE IF IndexOfFound(allowedParent, childConfig.context)
              \/ IndexOfFound(allowedParent, pName)
           THEN "true" ELSE "false"

\* variant: the allowance is consulted before the exclude list
isValidHTMLChild_AllowanceFirst(pName, cName) ==
  IF ~has(HTML_ELEMENT_CONTEXT, pName) THEN "maybe"
  ELSE
    LET parentConfig == HTML_ELEMENT_CONTEXT[pName]
        parentContext == parentConfig.context
    IN
    IF ContextOf(parentContext) = TypeError THEN TypeError
    ELSE IF ContextOf(parentContext) = "void" THEN "false"
    ELSE IF ~has(HTML_ELEMENT_CONTEXT, cName) THEN "maybe"
    ELSE
      LET childConfig == HTML_ELEMENT_CONTEXT[cName]
          allowedParent == childConfig.parent
      IN
      IF parentConfig.noInteractive /\ childConfig.interactive THEN "false"
      ELSE IF IndexOfFound(allowedParent, parentContext)
              \/ IndexOfFound(allowedParent, pName)
           THEN "true"
      ELSE IF childConfig.exclude.t = "array"
              /\ IndexOfFound(childConfig.exclude, pName) THEN "false"
      ELSE "false"

isValidHTMLChild(pName, cName) ==
  IF ~has(HTML_ELEMENT_CONTEXT, pName) THEN "maybe"
  ELSE
    LET parentConfig == HTML_ELEMENT_CONTEXT[pName]
        parentContext == parentConfig.context
    IN
    IF ContextOf(parentContext) = TypeError THEN TypeError
    ELSE IF ContextOf(parentContext) = "void" THEN "false"
    ELSE IF ~has(HTML_ELEMENT_CONTEXT, cName) THEN "maybe"
    ELSE
      LET childConfig == HTML_ELEMENT_CONTEXT[cName]
          allowedParent == childConfig.parent
      IN
      IF parentConfig.noInteractive /\ childConfig.interactive THEN "false"
      ELSE IF childConfig.exclude.t = "array"
              /\ IndexOfFound(childConfig.exclude, pName) THEN "false"
      ELSE IF IndexOfFound(allowedParent, parentContext)
              \/ IndexOfFound(allowedParent, pName)
           THEN "true" ELSE "false"

----------------------------------------------------------------------------
(* isValidChild (valid-table-hierarchy.js): the older predicate, applied   *)
(* to the table that file builds.  Only the parent's context is looked up, *)
(* and a string `parent` is compared with ===.                             *)

\* the table the rule uses once valid-table-hierarchy.js is loaded
TABLE_RULE_CONTEXT == Loaded(TableProgram)

TableKnownTags == DOMAIN TABLE_RULE_CONTEXT

isValidChild(d, pName, cName) ==
  IF ~has(d, pName) THEN "maybe"
  ELSE
    LET parentContext == d[pName].context IN
    IF ContextOf(parentContext) = TypeError THEN TypeError
    ELSE IF ContextOf(parentContext) = "void" THEN "false"
    ELSE IF ~has(d, cName) THEN "maybe"
    ELSE
      LET allowedParent == d[cName].parent IN
      IF allowedParent.t = "string"
      THEN (IF parentContext = allowedParent.v THEN "true" ELSE "false")
      ELSE (IF IndexOfFound(allowedParent, parentContext)
            THEN "true" ELSE "false")

----------------------------------------------------------------------------
(* SpecPairs: isValidHTMLChild on one pair of tag names.                   *)

\* names that are not keys of the table: custom components, custom elements
UnknownTags == {"Foo", "my-widget"}

PairNames == KnownTags \cup TableKnownTags \cup UnknownTags

InitPairs ==
  /\ parentName \in PairNames
  /\ childName \in PairNames
  /\ verdict = "idle"
  /\ tableVerdict = "idle"
  /\ file = "valid-dom-hierarchy" /\ dict = EmptyDict /\ step = 1
  /\ aborted = FALSE
  /\ nodes = <<>> /\ reports = <<>> /\ crashed = FALSE
  /\ WalkIdle

Evaluate ==
  /\ verdict = "idle"
  /\ verdict' = isValidHTMLChild(parentName, childName)
  /\ UNCHANGED <<parentName, childName, tableVerdict, buildVars, treeVars,
                 walkVars>>

\* the same pair given to the predicate of valid-table-hierarchy.js
EvaluateTableRule ==
  /\ tableVerdict = "idle"
  /\ tableVerdict' = isValidChild(TABLE_RULE_CONTEXT, parentName, childName)
  /\ UNCHANGED <<parentName, childName, verdict, buildVars, treeVars,
                 walkVars>>

NextPairs ==
  \/ Evaluate
  \/ EvaluateTableRule

SpecPairs == InitPairs /\ [][NextPairs]_vars

Verdicts == {"true", "false", "maybe"}

----------------------------------------------------------------------------
(* Syntax tree nodes.  `parent` is the id of the parent node, 0 for none.  *)
(* `name` is node.openingElement.name.name of a JSXElement (undefined for  *)
(* a member-expression name).  calleeType, propType and propName are       *)
(* node.callee.type, node.callee.property.type and                         *)
(* node.callee.property.name of a CallExpression; isCreateElement is what  *)
(* utils.isCreateElement(node) answers; args are node.arguments.           *)

Blank(type) ==
  [type |-> type, parent |-> 0, name |-> Undefined, calleeType |-> Undefined,
   propType |-> Undefined, propName |-> Undefined, isCreateElement |-> FALSE,
   args |-> <<>>]

JSXElementNode(n) == [Blank("JSXElement") EXCEPT !.name = n]

CallNode(calleeType, propName, isCE, args) ==
  [Blank("CallExpression") EXCEPT
     !.calleeType = calleeType,
     !.propType = IF calleeType = "MemberExpression" THEN "Identifier" ELSE Undefined,
     !.propName = propName,
     !.isCreateElement = isCE,
     !.args = args]

Literal(value) == [type |-> "Literal", value |-> value]
Identifier(n)  == [type |-> "Identifier", value |-> Undefined]
ArrowFunction  == [type |-> "ArrowFunctionExpression", value |-> Undefined]

\* React.createElement(...args)
CreateElementCall(args) == CallNode("MemberExpression", "createElement", TRUE, args)

\* foo.map((x) => ...)
MapCall == CallNode("MemberExpression", "map", FALSE, <<ArrowFunction>>)

\* wrap(...): a call that is neither a map call nor createElement
PlainCall == CallNode("Identifier", Undefined, FALSE, <<>>)

\* variant: the list without its last entry
SKIP_PARENT_TYPES_NoArrow ==
  <<"LogicalExpression", "ConditionalExpression", "ReturnStatement",
    "BlockStatement", "FunctionExpression", "JSXExpressionContainer">>

SKIP_PARENT_TYPES ==
  <<"LogicalExpression", "ConditionalExpression", "ReturnStatement",
    "BlockStatement", "FunctionExpression", "JSXExpressionContainer",
    "ArrowFunctionExpression">>

InList(list, x) == \E i \in 1..Len(list) : list[i] = x

\* !x for the values a tag name can take
Falsy(x) == x = Undefined \/ x = ""

getCallElementName(node) ==
  IF node.type # "CallExpression" THEN Undefined
  ELSE IF node.calleeType # "MemberExpression" /\ node.calleeType # "Identifier"
       THEN Undefined
  ELSE IF ~node.isCreateElement THEN Undefined
  ELSE IF Len(node.args) < 1 \/ node.args[1].type # "Literal" THEN Undefined
  ELSE node.args[1].value

\* variant: every node that is neither an element nor a call is skipped
IsSkipped_AnyNonElement(node) ==
  node.type \notin {"JSXElement", "CallExpression"}

\* SKIP_PARENT_TYPES.indexOf(node.type) > -1
IsSkipped(node) == InList(SKIP_PARENT_TYPES, node.type)

\* variant: the property name is compared with another method name
IsMapCall_ForEach(node) ==
  /\ node.type = "CallExpression"
  /\ node.calleeType = "MemberExpression"
  /\ node.propType = "Identifier"
  /\ node.propName = "forEach"

\* variant: a call that yields no element name is skipped like a map call
IsMapCall_OrUnnamedCall(node) ==
  /\ node.type = "CallExpression"
  /\ \/ /\ node.calleeType = "MemberExpression"
        /\ node.propType = "Identifier"
        /\ node.propName = "map"
     \/ getCallElementName(node) = Undefined

\* the test that makes a parent `.map(...)` call transparent
IsMapCall(node) ==
  /\ node.type = "CallExpression"
  /\ node.calleeType = "MemberExpression"
  /\ node.propType = "Identifier"
  /\ node.propName = "map"

\* the loop of findParentName, entered with `node` = tree[id] (0: null)
RECURSIVE WalkUp(_, _)
WalkUp(tree, id) ==
  IF id = 0 THEN Undefined
  ELSE LET node == tree[id] IN
    IF IsSkipped(node) THEN WalkUp(tree, node.parent)
    ELSE IF IsMapCall(node) THEN WalkUp(tree, node.parent)
    ELSE IF node.type = "JSXElement" THEN node.name
    ELSE IF node.type = "CallExpression" THEN getCallElementName(node)
    ELSE Undefined

findParentName(tree, startNode) == WalkUp(tree, startNode.parent)

errorMessage(pName, elementName) ==
  <<"Invalid DOM elements hierarchy: <", elementName,
    "> is not a valid child of <", pName, ">.">>

Diagnostic(id, pName, elementName) ==
  [node |-> id, message |-> errorMessage(pName, elementName)]

\* variant: every result other than true is reported ('maybe' included)
CheckPair_ReportUnlessTrue(id, pName, elementName) ==
  LET result == isValidHTMLChild(pName, elementName) IN
  IF result = TypeError THEN [out |-> <<>>, threw |-> TRUE]
  ELSE IF result # "true"
       THEN [out |-> <<Diagnostic(id, pName, elementName)>>, threw |-> FALSE]
  ELSE [out |-> <<>>, threw |-> FALSE]

\* the common tail of both handlers: what is reported for node `id`, and
\* whether the handler threw
CheckPair(id, pName, elementName) ==
  LET result == isValidHTMLChild(pName, elementName) IN
  IF result = TypeError THEN [out |-> <<>>, threw |-> TRUE]
  ELSE IF result = "false"
       THEN [out |-> <<Diagnostic(id, pName, elementName)>>, threw |-> FALSE]
  ELSE [out |-> <<>>, threw |-> FALSE]

Silent == [out |-> <<>>, threw |-> FALSE]

\* JSXElement(node)
JSXElementHandler(tree, id) ==
  LET cName == tree[id].name
      pName == findParentName(tree, tree[id])
  IN IF Falsy(pName) THEN Silent ELSE CheckPair(id, pName, cName)

\* CallExpression(node)
CallExpressionHandler(tree, id) ==
  LET elementName == getCallElementName(tree[id])
      pName == findParentName(tree, tree[id])
  IN IF Falsy(elementName) \/ Falsy(pName) THEN Silent
     ELSE CheckPair(id, pName, elementName)

----------------------------------------------------------------------------
(* Spec: one lint run.  The traversal enters a node, which is the child of *)
(* the node entered before it, and runs the handler registered for its     *)
(* type.  Handlers read only parent links, so the nodes that matter to a   *)
(* node are those on its path to the root.                                 *)

MaxDepth == 4

\* tag names used in the trees: parents and children of the table family,
\* a custom component, and a tag whose entry has no `context`
JsxNames == {"table", "tr", "td", "Foo", Undefined}

CreateElementArgs ==
  {<<>>, <<Identifier("Foo")>>, <<Literal("table")>>, <<Literal("td")>>,
   <<Literal("object")>>}

CallShapes == {CreateElementCall(a) : a \in CreateElementArgs}
                \cup {MapCall, PlainCall}

\* the types no handler is registered for: the wrappers of expressions,
\* statements and functions, and an array literal
OtherTypes ==
  {"LogicalExpression", "ConditionalExpression", "ReturnStatement",
   "BlockStatement", "FunctionExpression", "JSXExpressionContainer",
   "ArrowFunctionExpression", "ArrayExpression"}

Init ==
  /\ nodes = <<>>
  /\ reports = <<>>
  /\ crashed = FALSE
  /\ file = "valid-dom-hierarchy" /\ dict = EmptyDict /\ step = 1
  /\ aborted = FALSE
  /\ parentName = Undefined /\ childName = Undefined /\ verdict = "idle"
  /\ tableVerdict = "idle"
  /\ WalkIdle

CanEnter == ~crashed /\ Len(nodes) < MaxDepth

Attach(shape) == Append(nodes, [shape EXCEPT !.parent = Len(nodes)])

EnterJSXElement ==
  /\ CanEnter
  /\ \E n \in JsxNames :
       LET tree == Attach(JSXElementNode(n))
           r == JSXElementHandler(tree, Len(tree))
       IN /\ nodes' = tree
          /\ reports' = reports \o r.out
          /\ crashed' = r.threw
  /\ UNCHANGED <<buildVars, pairVars, walkVars>>

EnterCallExpression ==
  /\ CanEnter
  /\ \E c \in CallShapes :
       LET tree == Attach(c)
           r == CallExpressionHandler(tree, Len(tree))
       IN /\ nodes' = tree
          /\ reports' = reports \o r.out
          /\ crashed' = r.threw
  /\ UNCHANGED <<buildVars, pairVars, walkVars>>

\* a node of a type no handler is registered for
EnterOther ==
  /\ CanEnter
  /\ \E t \in OtherTypes : nodes' = Attach(Blank(t))
  /\ UNCHANGED <<reports, crashed, buildVars, pairVars, walkVars>>

Next ==
  \/ EnterJSXElement
  \/ EnterCallExpression
  \/ EnterOther

Spec == Init /\ [][Next]_vars

----------------------------------------------------------------------------
(* SpecWalk: findParentName one loop iteration at a time.  A tree is       *)
(* grown, then findParentName is called on its deepest node; walkNode is   *)
(* the local variable `node`, tested by `while (node)` before each         *)
(* iteration.                                                              *)

MaxWalkDepth == 4

\* one node of every kind the loop tells apart
WalkShapes ==
  {Blank(t) : t \in OtherTypes}
    \cup {MapCall, PlainCall, JSXElementNode("table"),
          CreateElementCall(<<Identifier("Foo")>>),
          CreateElementCall(<<Literal("td")>>)}

\* variant: two parent links are followed at once
ParentLink_Grandparent(tree, id) ==
  IF tree[id].parent = 0 THEN 0 ELSE tree[tree[id].parent].parent

\* node.parent
ParentLink(tree, id) == tree[id].parent

InitWalk == Init

GrowTree ==
  /\ walkPc = "idle"
  /\ Len(nodes) < MaxWalkDepth
  /\ \E shape \in WalkShapes : nodes' = Attach(shape)
  /\ UNCHANGED <<reports, crashed, buildVars, pairVars, walkVars>>

\* let node = startNode.parent
StartWalk ==
  /\ walkPc = "idle"
  /\ nodes # <<>>
  /\ walkPc' = "loop"
  /\ walkNode' = nodes[Len(nodes)].parent
  /\ UNCHANGED <<walkVisited, walkResult, buildVars, pairVars, treeVars>>

InLoopBody == walkPc = "loop" /\ walkNode # 0

\* `while (node)` fails: the function ends without a return value
WalkOffRoot ==
  /\ walkPc = "loop" /\ walkNode = 0
  /\ walkPc' = "done"
  /\ walkResult' = Undefined
  /\ UNCHANGED <<walkNode, walkVisited, buildVars, pairVars, treeVars>>

\* first branch: a skipped type
WalkSkipWrapper ==
  /\ InLoopBody
  /\ IsSkipped(nodes[walkNode])
  /\ walkNode' = ParentLink(nodes, walkNode)
  /\ walkVisited' = Append(walkVisited, walkNode)
  /\ UNCHANGED <<walkPc, walkResult, buildVars, pairVars, treeVars>>

\* second branch: a map call
WalkSkipMapCall ==
  /\ InLoopBody
  /\ ~IsSkipped(nodes[walkNode])
  /\ IsMapCall(nodes[walkNode])
  /\ walkNode' = ParentLink(nodes, walkNode)
  /\ walkVisited' = Append(walkVisited, walkNode)
  /\ UNCHANGED <<walkPc, walkResult, buildVars, pairVars, treeVars>>

\* else branch: every path returns
WalkReturn ==
  /\ InLoopBody
  /\ ~IsSkipped(nodes[walkNode])
  /\ ~IsMapCall(nodes[walkNode])
  /\ walkPc' = "done"
  /\ walkResult' =
       IF nodes[walkNode].type = "JSXElement" THEN nodes[walkNode].name
       ELSE IF nodes[walkNode].type = "CallExpression"
            THEN getCallElementName(nodes[walkNode])
       ELSE Undefined
  /\ walkVisited' = Append(walkVisited, walkNode)
  /\ UNCHANGED <<walkNode, buildVars, pairVars, treeVars>>

WalkStep ==
  \/ WalkOffRoot
  \/ WalkSkipWrapper
  \/ WalkSkipMapCall
  \/ WalkReturn

NextWalk ==
  \/ GrowTree
  \/ StartWalk
  \/ WalkOffRoot
  \/ WalkSkipWrapper
  \/ WalkSkipMapCall
  \/ WalkReturn

\* the function body is straight-line code: once entered it keeps running
SpecWalk == InitWalk /\ [][NextWalk]_vars /\ WF_vars(WalkStep)

----------------------------------------------------------------------------
(* Properties of a lint run (Spec).  Node k's parent is node k - 1, so the *)
(* ancestors of node i are the nodes 1 .. i - 1.                           *)

NodeIds == 1..Len(nodes)

\* the statically known tag of an element / creation-expression node
OwnTag(node) ==
  IF node.type = "JSXElement" THEN node.name
  ELSE IF node.type = "CallExpression" THEN getCallElementName(node)
  ELSE Undefined

LogicalParent(i) == findParentName(nodes, nodes[i])

ReportsFor(i) == {k \in 1..Len(reports) : reports[k].node = i}

MustReport(i) ==
  /\ OwnTag(nodes[i]) # Undefined
  /\ LogicalParent(i) # Undefined
  /\ isValidHTMLChild(LogicalParent(i), OwnTag(nodes[i])) = "false"

\* C1: a node is reported exactly once, with its logical parent tag and its
\* own tag in the message, when it has a known tag, a resolved logical
\* parent and the verdict false; every other node is not reported at all
C1_OneDiagnosticPerInvalidNode ==
  \A i \in NodeIds :
    IF MustReport(i)
    THEN /\ Cardinality(ReportsFor(i)) = 1
         /\ \A k \in ReportsFor(i) :
              /\ reports[k].message[2] = OwnTag(nodes[i])
              /\ reports[k].message[4] = LogicalParent(i)
    ELSE ReportsFor(i) = {}

\* one run in which a td under table is reported, a tr under table (valid)
\* and a custom component under table ('maybe') are not
C1_Witness ==
  \E i, j \in NodeIds :
    /\ MustReport(i) /\ ReportsFor(i) # {}
    /\ OwnTag(nodes[j]) # Undefined /\ LogicalParent(j) # Undefined
    /\ isValidHTMLChild(LogicalParent(j), OwnTag(nodes[j])) = "maybe"
    /\ ReportsFor(j) = {}

\* the wrapper node types a logical parent is looked for through
TransparentWrapperTypes ==
  {"LogicalExpression", "ConditionalExpression", "ReturnStatement",
   "BlockStatement", "FunctionExpression", "ArrowFunctionExpression",
   "JSXExpressionContainer"}

IsWrapper(node) == node.type \in TransparentWrapperTypes

\* a call whose callee is a member access with identifier property 'map'
IsMapShaped(node) ==
  /\ node.type = "CallExpression"
  /\ node.calleeType = "MemberExpression"
  /\ node.propType = "Identifier"
  /\ node.propName = "map"

\* a createElement call whose first argument is not a literal
IsDynamicCreate(node) ==
  /\ node.type = "CallExpression"
  /\ node.isCreateElement
  /\ Len(node.args) >= 1
  /\ node.args[1].type # "Literal"

Between(a, i) == (a + 1)..(i - 1)

Reported(i) == ReportsFor(i) # {}

\* C6: when only transparent wrappers (any number, any order) lie between a
\* node and an enclosing element with a literal tag, findParentName returns
\* that element's tag, and the node is reported exactly when it would be as
\* a direct child of that element
C6_WrappersAreTransparent ==
  \A i \in NodeIds : \A a \in 1..(i - 1) :
    (/\ OwnTag(nodes[a]) # Undefined
     /\ \A k \in Between(a, i) : IsWrapper(nodes[k]))
      => /\ LogicalParent(i) = OwnTag(nodes[a])
         /\ OwnTag(nodes[i]) # Undefined =>
              (Reported(i) <=>
                 isValidHTMLChild(OwnTag(nodes[a]), OwnTag(nodes[i])) = "false")

\* a td reported under table through two wrappers of different types
C6_Witness ==
  \E i \in NodeIds : \E a \in 1..(i - 1) :
    /\ i - a >= 3
    /\ OwnTag(nodes[a]) = "table" /\ OwnTag(nodes[i]) = "td"
    /\ \A k \in Between(a, i) : IsWrapper(nodes[k])
    /\ nodes[a + 1].type # nodes[a + 2].type
    /\ Reported(i)

\* C7: a map call between a node and the enclosing element (alone or with
\* wrappers around it) is passed through: the logical parent is the element
\* enclosing the call, a td produced under table is reported with parent
\* table and a tr produced under table is not reported
C7_MapCallIsTransparent ==
  \A i \in NodeIds : \A a \in 1..(i - 1) :
    (/\ OwnTag(nodes[a]) # Undefined
     /\ \A k \in Between(a, i) : IsWrapper(nodes[k]) \/ IsMapShaped(nodes[k])
     /\ \E k \in Between(a, i) : IsMapShaped(nodes[k]))
      => /\ LogicalParent(i) = OwnTag(nodes[a])
         /\ (OwnTag(nodes[a]) = "table" /\ OwnTag(nodes[i]) = "td") =>
              \E k \in ReportsFor(i) :
                reports[k].message = errorMessage("table", "td")
         /\ (OwnTag(nodes[a]) = "table" /\ OwnTag(nodes[i]) = "tr") =>
              ~Reported(i)

\* <table>{foo.map((x) => <td />)}</table>: the td is reported against table
C7_Witness ==
  /\ Len(nodes) = 4
  /\ nodes[1] = JSXElementNode("table")
  /\ IsMapShaped(nodes[2])
  /\ nodes[3].type = "ArrowFunctionExpression"
  /\ nodes[4].type = "JSXElement" /\ nodes[4].name = "td"
  /\ Len(reports) = 1
  /\ reports[1] = Diagnostic(4, "table", "td")

\* the only nodes between a and i, other than d, are wrappers or map calls
OnlyTransparentBesides(a, d, i) ==
  \A k \in Between(a, i) \ {d} : IsWrapper(nodes[k]) \/ IsMapShaped(nodes[k])

\* C8 as stated: a createElement call with a non-literal first argument is
\* never reported, and the walk passes through it to the outer literal-tag
\* element, which becomes the logical parent
C8_DynamicCallIsTransparentHop ==
  \A i \in NodeIds : \A a \in 1..(i - 1) : \A d \in Between(a, i) :
    (/\ IsDynamicCreate(nodes[d])
     /\ OwnTag(nodes[a]) # Undefined
     /\ OwnTag(nodes[i]) # Undefined
     /\ OnlyTransparentBesides(a, d, i))
      => /\ ~Reported(d)
         /\ LogicalParent(i) = OwnTag(nodes[a])

\* C8 amended: a createElement call with a non-literal first argument is
\* never reported, and the walk stops at it: a node whose first ancestor
\* that is neither a wrapper nor a map call is such a call has no logical
\* parent and is not reported, whatever lies further out
C8_DynamicCallStopsWalk ==
  \A d \in NodeIds :
    IsDynamicCreate(nodes[d])
      => /\ ~Reported(d)
         /\ \A i \in (d + 1)..Len(nodes) :
              (\A k \in Between(d, i) :
                  IsWrapper(nodes[k]) \/ IsMapShaped(nodes[k]))
                => /\ LogicalParent(i) = Undefined
                   /\ ~Reported(i)

\* table > createElement(Foo, ...) > td: td under table would be invalid,
\* yet nothing is reported
C8_Witness ==
  \E a, d, i \in NodeIds :
    /\ a < d /\ d < i
    /\ OwnTag(nodes[a]) = "table" /\ OwnTag(nodes[i]) = "td"
    /\ IsDynamicCreate(nodes[d])
    /\ OnlyTransparentBesides(a, d, i)
    /\ isValidHTMLChild("table", "td") = "false"
    /\ LogicalParent(i) = Undefined
    /\ reports = <<>>

\* the nearest ancestor of node i that is neither a wrapper nor a map
\* call, 0 when there is none
FirstStop(i) ==
  LET stops == {k \in 1..(i - 1) :
                  ~IsWrapper(nodes[k]) /\ ~IsMapShaped(nodes[k])}
  IN IF stops = {} THEN 0 ELSE Last(stops)

\* a JSX element or a createElement call
IsElementNode(node) ==
  \/ node.type = "JSXElement"
  \/ node.type = "CallExpression" /\ node.isCreateElement

\* C13: findParentName stops at the first ancestor that is neither a
\* wrapper nor a map call; when that ancestor is not an element the result
\* is undefined whatever lies above it, and a returned tag is the tag of
\* that ancestor
C13_StopsAtFirstOpaqueAncestor ==
  \A i \in NodeIds :
    LET s == FirstStop(i) IN
    /\ s = 0 => LogicalParent(i) = Undefined
    /\ (s # 0 /\ ~IsElementNode(nodes[s])) => LogicalParent(i) = Undefined
    /\ LogicalParent(i) # Undefined =>
         (s # 0 /\ LogicalParent(i) = OwnTag(nodes[s]))

\* table > [ ... ] or wrap(...) > td: the array literal or plain call hides
\* the table, and the td is not reported
C13_Witness ==
  \E a, i \in NodeIds :
    /\ a < FirstStop(i)
    /\ OwnTag(nodes[a]) = "table" /\ OwnTag(nodes[i]) = "td"
    /\ ~IsElementNode(nodes[FirstStop(i)])
    /\ \A k \in Between(a, FirstStop(i)) : IsWrapper(nodes[k])
    /\ LogicalParent(i) = Undefined
    /\ ~Reported(i)

----------------------------------------------------------------------------
(* Properties of the walk (SpecWalk).  The start node is the deepest node. *)

RECURSIVE Depth(_, _)
\* the number of proper ancestors of node id
Depth(tree, id) ==
  IF tree[id].parent = 0 THEN 0 ELSE 1 + Depth(tree, tree[id].parent)

WalkStart == Len(nodes)

\* the node the k-th iteration must run on: one parent link above the
\* previous one
ExpectedVisit(k) ==
  IF k = 1 THEN nodes[WalkStart].parent
  ELSE nodes[walkVisited[k - 1]].parent

WalkInvariant ==
  walkPc # "idle" =>
    /\ Len(walkVisited) <= Depth(nodes, WalkStart)
    /\ \A k \in 1..Len(walkVisited) :
         walkVisited[k] # 0 /\ walkVisited[k] = ExpectedVisit(k)
    /\ \A j, k \in 1..Len(walkVisited) :
         j # k => walkVisited[j] # walkVisited[k]
    /\ walkPc = "loop" => walkNode = ExpectedVisit(Len(walkVisited) + 1)
    /\ (walkPc = "done" /\ walkNode = 0) => walkResult = Undefined
    /\ walkPc = "done" =>
         walkResult = findParentName(nodes, nodes[WalkStart])

\* C12: the walk terminates; every iteration runs on the node one parent
\* link above the previous one, no node is visited twice, there are at most
\* as many iterations as the start node has ancestors, and a walk that
\* runs off the root returns undefined
C12_WalkTerminatesWithinDepth ==
  /\ []WalkInvariant
  /\ (walkPc = "loop") ~> (walkPc = "done")

\* a walk from depth 3 through three transparent nodes that runs off the
\* root
C12_Witness ==
  /\ walkPc = "done"
  /\ Depth(nodes, WalkStart) = 3
  /\ Len(walkVisited) = 3
  /\ walkNode = 0
  /\ walkResult = Undefined

----------------------------------------------------------------------------
(* Properties of isValidHTMLChild (SpecPairs), stated against the table.   *)

Evaluated == verdict # "idle"

IsVoid(tag) ==
  tag \in KnownTags /\ HTML_ELEMENT_CONTEXT[tag].context = "void"

\* the child's `parent` property read as a set of whole names
AllowedParents(tag) ==
  LET par == HTML_ELEMENT_CONTEXT[tag].parent
  IN IF par.t = "array" THEN {par.v[i] : i \in 1..Len(par.v)} ELSE {par.v}

ExcludeList(tag) ==
  LET ex == HTML_ELEMENT_CONTEXT[tag].exclude
  IN IF ex.t = "array" THEN {ex.v[i] : i \in 1..Len(ex.v)} ELSE {}

InteractiveRule(p, c) ==
  HTML_ELEMENT_CONTEXT[p].noInteractive /\ HTML_ELEMENT_CONTEXT[c].interactive

ExcludeRule(p, c) == p \in ExcludeList(c)

AllowanceMatches(p, c) ==
  \/ HTML_ELEMENT_CONTEXT[p].context \in AllowedParents(c)
  \/ p \in AllowedParents(c)

\* C2: under a parent whose context is 'void' every child, known or not, is
\* invalid (false)
C2_VoidParentAlwaysInvalid ==
  (Evaluated /\ IsVoid(parentName)) => verdict = "false"

\* C3: when the child or the parent is not a key of the table the result is
\* 'maybe', whatever the other tag is
C3_UnknownTagIsMaybe ==
  (Evaluated /\ (childName \notin KnownTags \/ parentName \notin KnownTags))
    => verdict = "maybe"

\* C4: for a known non-void parent and a known child that neither the
\* interactive rule nor the exclude rule catches, the result is true when
\* the child's allowed parents contain the parent's context or the parent's
\* name as a whole element, and false otherwise
C4_AllowanceIsSetMembership ==
  (/\ Evaluated
   /\ parentName \in KnownTags /\ childName \in KnownTags
   /\ ~IsVoid(parentName)
   /\ ~InteractiveRule(parentName, childName)
   /\ ~ExcludeRule(parentName, childName))
    => verdict = IF AllowanceMatches(parentName, childName)
                 THEN "true" ELSE "false"

\* C5: a known child whose exclude list names the known parent is invalid,
\* also when its allowed parents match the parent
C5_ExcludeOverridesAllowance ==
  (/\ Evaluated
   /\ parentName \in KnownTags /\ childName \in KnownTags
   /\ ExcludeRule(parentName, childName))
    => verdict = "false"

\* footer inside header: excluded although header's context is allowed,
\* and not caught by the interactive rule
C5_Witness ==
  /\ Evaluated
  /\ parentName = "header" /\ childName = "footer"
  /\ ExcludeRule(parentName, childName)
  /\ AllowanceMatches(parentName, childName)
  /\ ~InteractiveRule(parentName, childName)
  /\ verdict = "false"

\* C9: isValidHTMLChild returns true, false or 'maybe' for every pair of
\* names and never throws
C9_Total == Evaluated => verdict \in Verdicts

\* the parents of the table family
TableFamily == {"table", "thead", "tbody", "tfoot", "tr"}

\* the valid children the file headers list
HeaderChildren(p) ==
  CASE p = "table" -> {"thead", "tbody", "tfoot", "tr"}
    [] p \in {"thead", "tbody", "tfoot"} -> {"tr"}
    [] p = "tr" -> {"td", "th"}

\* the valid children the tables give: caption and colgroup name table too
TableChildren(p) ==
  IF p = "table" THEN HeaderChildren(p) \cup {"caption", "colgroup"}
  ELSE HeaderChildren(p)

\* under parent p the verdict v of a known child is true only for a child
\* in `allowed`, and false for every other known child
OnlyListedChildren(v, known, allowed) ==
  (v # "idle" /\ childName \in known)
    => /\ v = "true" => childName \in allowed
       /\ childName \notin allowed => v = "false"

----------------------------------------------------------------------------
(* Properties of module load (SpecBuild).                                  *)

\* the registration steps executed so far that name `tag`
RegistrationsOf(tag) ==
  {i \in 1..(step - 1) :
     Program(file)[i].key = tag /\ Program(file)[i].op \in RegisterOps}

\* C10: while the table is built every tag in it has been registered by
\* exactly one executed step: a step naming a tag already present aborts
\* and never replaces the earlier entry
C10_RegisteredAtMostOnce ==
  \A tag \in DOMAIN dict : Cardinality(RegistrationsOf(tag)) = 1

====
